---- MODULE Spec2Model ----
(***************************************************************************)
(* Model of googlemaps/places.py: the four Places API request builders     *)
(* (places, place, places_photo, places_autocomplete).  Each function      *)
(* builds a parameter mapping from its keyword arguments, calls the        *)
(* injected client's _get and post-processes the reply.  The module keeps  *)
(* no state of its own; the variables record the latest invocation: the    *)
(* operation, its arguments, the _get calls it made, the collaborator's    *)
(* reply and the way the invocation ended.                                 *)
(***************************************************************************)
EXTENDS Integers, Sequences, FiniteSets, TLC

VARIABLES pc, op, args, calls, reply, outcome

vars == <<pc, op, args, calls, reply, outcome>>

(***************************************************************************)
(* Bounds of the argument domains.                                         *)
(***************************************************************************)
MaxPrice == 5
MaxPixels == 2
MaxRadius == 1
MaxOffset == 1

(***************************************************************************)
(* Python values, tagged by type.                                          *)
(***************************************************************************)
None == [t |-> "None"]
PyInt(i) == [t |-> "int", i |-> i]
PyStr(s) == [t |-> "str", s |-> s]
PyBool(b) == [t |-> "bool", b |-> b]
PyDict(f) == [t |-> "dict", items |-> f]
PyTuple(q) == [t |-> "tuple", elems |-> q]
PyList(q) == [t |-> "list", elems |-> q]

\* Python truth value testing, as applied by "if x:" and "not (x or y)".
Truthy(v) ==
    CASE v.t = "None" -> FALSE
      [] v.t = "int" -> v.i # 0
      [] v.t = "str" -> v.s # ""
      [] v.t = "bool" -> v.b
      [] v.t = "dict" -> DOMAIN v.items # {}
      [] v.t \in {"tuple", "list"} -> Len(v.elems) > 0

\* "x or y" of Python: the first operand when it is truthy, else the second.
PyOr(x, y) == IF Truthy(x) THEN x ELSE y

\* params[k] = v on a dict.
SetItem(params, k, v) ==
    [x \in DOMAIN params \cup {k} |-> IF x = k THEN v ELSE params[x]]

\* How an invocation (or a _get call) ends.
Return(v) == [kind |-> "return", value |-> v]
Raise(e) == [kind |-> "raise", exc |-> e]
NoReply == [kind |-> "none"]

(***************************************************************************)
(* convert.latlng: normalisation of a coordinate to the string "lat,lng".  *)
(* A string is already in wire form; a mapping with lat and lng and a      *)
(* two-element sequence are formatted; any other shape fails.              *)
(***************************************************************************)
latlng(arg) ==
    CASE arg.t = "str" -> Return(arg)
      [] arg.t = "dict" /\ {"lat", "lng"} \subseteq DOMAIN arg.items ->
            Return(PyStr(ToString(arg.items["lat"]) \o "," \o ToString(arg.items["lng"])))
      [] arg.t = "tuple" /\ Len(arg.elems) = 2 ->
            Return(PyStr(ToString(arg.elems[1]) \o "," \o ToString(arg.elems[2])))
      [] OTHER -> Raise("TypeError")

\* client._get(path, params, extract_body=..., requests_kwargs=...) as called.
GetCall(path, params, raw, stream) ==
    [path |-> path, params |-> params, raw |-> raw, stream |-> stream]

(***************************************************************************)
(* places: text search.                                                    *)
(***************************************************************************)
\* Variant: the location is converted without the truthiness test.
places_location_fails_unguarded(a) ==
    latlng(a.location).kind = "raise"

\* Lines 72-73: convert.latlng runs only on a truthy location and its
\* failure leaves the function before the collaborator is called.
places_location_fails(a) ==
    Truthy(a.location) /\ latlng(a.location).kind = "raise"

\* Variant: a closed search is sent as opennow=false.
places_params_opennow_false(a) ==
    LET p0 == [k \in {"query"} |-> a.query]
        p1 == IF Truthy(a.location)
                 THEN SetItem(p0, "location", latlng(a.location).value) ELSE p0
        p2 == IF Truthy(a.radius) THEN SetItem(p1, "radius", a.radius) ELSE p1
        p3 == IF Truthy(a.language) THEN SetItem(p2, "language", a.language) ELSE p2
        p4 == IF Truthy(a.min_price) THEN SetItem(p3, "minprice", a.min_price) ELSE p3
        p5 == IF Truthy(a.max_price) THEN SetItem(p4, "maxprice", a.max_price) ELSE p4
        p6 == SetItem(p5, "opennow",
                      IF Truthy(a.open_now) THEN PyStr("true") ELSE PyStr("false"))
        p7 == IF Truthy(a.page_token) THEN SetItem(p6, "pagetoken", a.page_token) ELSE p6
    IN  p7

\* Variant: a continuation request carries the page token alone.
places_params_token_only(a) ==
    LET p0 == [k \in {"query"} |-> a.query]
        p1 == IF Truthy(a.location)
                 THEN SetItem(p0, "location", latlng(a.location).value) ELSE p0
        p2 == IF Truthy(a.radius) THEN SetItem(p1, "radius", a.radius) ELSE p1
        p3 == IF Truthy(a.language) THEN SetItem(p2, "language", a.language) ELSE p2
        p4 == IF Truthy(a.min_price) THEN SetItem(p3, "minprice", a.min_price) ELSE p3
        p5 == IF Truthy(a.max_price) THEN SetItem(p4, "maxprice", a.max_price) ELSE p4
        p6 == IF Truthy(a.open_now) THEN SetItem(p5, "opennow", PyStr("true")) ELSE p5
    IN  IF Truthy(a.page_token) THEN [k \in {"pagetoken"} |-> a.page_token] ELSE p6

\* Lines 70-85: the parameter mapping.
places_params(a) ==
    LET p0 == [k \in {"query"} |-> a.query]
        p1 == IF Truthy(a.location)
                 THEN SetItem(p0, "location", latlng(a.location).value) ELSE p0
        p2 == IF Truthy(a.radius) THEN SetItem(p1, "radius", a.radius) ELSE p1
        p3 == IF Truthy(a.language) THEN SetItem(p2, "language", a.language) ELSE p2
        p4 == IF Truthy(a.min_price) THEN SetItem(p3, "minprice", a.min_price) ELSE p3
        p5 == IF Truthy(a.max_price) THEN SetItem(p4, "maxprice", a.max_price) ELSE p4
        p6 == IF Truthy(a.open_now) THEN SetItem(p5, "opennow", PyStr("true")) ELSE p5
        p7 == IF Truthy(a.page_token) THEN SetItem(p6, "pagetoken", a.page_token) ELSE p6
    IN  p7

\* Line 87: one _get call whose result, or exception, is the function's.
places_run(a, r) ==
    IF places_location_fails(a)
      THEN [calls |-> <<>>, reply |-> NoReply, outcome |-> latlng(a.location)]
      ELSE [calls |-> <<GetCall("/maps/api/place/textsearch/json",
                                places_params(a), FALSE, FALSE)>>,
            reply |-> r,
            outcome |-> r]

(***************************************************************************)
(* place: details of one place.                                            *)
(***************************************************************************)
\* Variant: the language is stored whether or not it was given.
place_params_always_language(a) ==
    LET p0 == [k \in {"placeid"} |-> a.place_id]
    IN  SetItem(p0, "language", a.language)

\* Lines 106-108.
place_params(a) ==
    LET p0 == [k \in {"placeid"} |-> a.place_id]
        p1 == IF Truthy(a.language) THEN SetItem(p0, "language", a.language) ELSE p0
    IN  p1

\* Line 109.
place_run(a, r) ==
    [calls |-> <<GetCall("/maps/api/place/details/json", place_params(a), FALSE, FALSE)>>,
     reply |-> r,
     outcome |-> r]

(***************************************************************************)
(* places_photo: download of a photo.                                      *)
(***************************************************************************)
\* Variant: the guard is missing.
places_photo_invalid_never(a) == FALSE

\* Line 139: the guard on the two size hints.
places_photo_invalid(a) == ~Truthy(PyOr(a.max_width, a.max_height))

\* Variant: the height is stored under the width's key.
places_photo_params_one_key(a) ==
    LET p0 == [k \in {"photoreference"} |-> a.photo_reference]
        p1 == IF Truthy(a.max_width) THEN SetItem(p0, "maxwidth", a.max_width) ELSE p0
        p2 == IF Truthy(a.max_height) THEN SetItem(p1, "maxwidth", a.max_height) ELSE p1
    IN  p2

\* Lines 142-147.
places_photo_params(a) ==
    LET p0 == [k \in {"photoreference"} |-> a.photo_reference]
        p1 == IF Truthy(a.max_width) THEN SetItem(p0, "maxwidth", a.max_width) ELSE p0
        p2 == IF Truthy(a.max_height) THEN SetItem(p1, "maxheight", a.max_height) ELSE p1
    IN  p2

\* response.iter_content(): an iterator over the chunks of the body.
iter_content(response) == [t |-> "iterator", chunks |-> response.content]

\* Variant: a failed download is tried a second time.
places_photo_run_retry(a, r) ==
    IF places_photo_invalid(a)
      THEN [calls |-> <<>>, reply |-> NoReply, outcome |-> Raise("ValueError")]
      ELSE LET c == GetCall("/maps/api/place/photo", places_photo_params(a), TRUE, TRUE)
           IN  [calls |-> IF r.kind = "raise" THEN <<c, c>> ELSE <<c>>,
                reply |-> r,
                outcome |-> IF r.kind = "raise" THEN r ELSE Return(iter_content(r.value))]

\* Lines 139-155: the guard, then one _get call for the raw, streamed
\* response, whose chunk iterator is returned.
places_photo_run(a, r) ==
    IF places_photo_invalid(a)
      THEN [calls |-> <<>>, reply |-> NoReply, outcome |-> Raise("ValueError")]
      ELSE [calls |-> <<GetCall("/maps/api/place/photo", places_photo_params(a), TRUE, TRUE)>>,
            reply |-> r,
            outcome |-> IF r.kind = "raise" THEN r ELSE Return(iter_content(r.value))]

(***************************************************************************)
(* places_autocomplete: query predictions.                                 *)
(***************************************************************************)
\* Lines 191-192, as in places.
places_autocomplete_location_fails(a) ==
    Truthy(a.location) /\ latlng(a.location).kind = "raise"

\* Lines 187-196.
places_autocomplete_params(a) ==
    LET p0 == [k \in {"input"} |-> a.input_text]
        p1 == IF Truthy(a.offset) THEN SetItem(p0, "offset", a.offset) ELSE p0
        p2 == IF Truthy(a.location)
                 THEN SetItem(p1, "location", latlng(a.location).value) ELSE p1
        p3 == IF Truthy(a.radius) THEN SetItem(p2, "radius", a.radius) ELSE p2
        p4 == IF Truthy(a.language) THEN SetItem(p3, "language", a.language) ELSE p3
    IN  p4

\* Variant: the envelope is returned as it came.
predictions_of_envelope(response) == Return(response)

\* Line 199: response["predictions"], a KeyError when the key is missing.
predictions_of(response) ==
    IF "predictions" \in DOMAIN response.items
      THEN Return(response.items["predictions"])
      ELSE Raise("KeyError")

\* Lines 187-199.
places_autocomplete_run(a, r) ==
    IF places_autocomplete_location_fails(a)
      THEN [calls |-> <<>>, reply |-> NoReply, outcome |-> latlng(a.location)]
      ELSE [calls |-> <<GetCall("/maps/api/place/queryautocomplete/json",
                                places_autocomplete_params(a), FALSE, FALSE)>>,
            reply |-> r,
            outcome |-> IF r.kind = "raise" THEN r ELSE predictions_of(r.value)]

(***************************************************************************)
(* Argument domains.                                                       *)
(***************************************************************************)
Queries == {PyStr("pizza")}
Locations ==
    {None, PyStr(""), PyStr("1,2"),
     PyDict([lat |-> 1, lng |-> 2]), PyTuple(<<1, 2>>), PyTuple(<<1>>), PyInt(5)}
Radii == {None} \cup {PyInt(i) : i \in 0..MaxRadius}
Languages == {None, PyStr(""), PyStr("en")}
Prices == {None} \cup {PyInt(i) : i \in -1..MaxPrice}
Flags == {PyBool(TRUE), PyBool(FALSE)}
TypesArgs == {None, PyStr("cafe")}
Tokens == {None, PyStr(""), PyStr("tok")}
Pixels == {None} \cup {PyInt(i) : i \in 0..MaxPixels}
Offsets == {None} \cup {PyInt(i) : i \in 0..MaxOffset}
Ids == {PyStr("abc123"), PyStr("ref")}

\* What the collaborator may answer: a parsed envelope (or, for a photo,
\* the raw response), or an exception.
Envelopes ==
    {PyDict([status |-> PyStr("OK"), predictions |-> PyList(<<PyStr("Pizza Place")>>)]),
     PyDict([status |-> PyStr("OK"), results |-> PyList(<<>>)])}
RawResponses ==
    {[t |-> "Response", content |-> <<"chunk1", "chunk2">>],
     [t |-> "Response", content |-> << >>]}
Failures == {"TransportError", "ApiError"}
JsonReplies == {Return(e) : e \in Envelopes} \cup {Raise(f) : f \in Failures}
RawReplies == {Return(e) : e \in RawResponses} \cup {Raise(f) : f \in Failures}

PlacesArgs ==
    [query : Queries, location : Locations, radius : Radii, language : Languages,
     min_price : Prices, max_price : Prices, open_now : Flags, types : TypesArgs,
     page_token : Tokens]
PlaceArgs == [place_id : Ids, language : Languages]
PhotoArgs == [photo_reference : Ids, max_width : Pixels, max_height : Pixels]
AutocompleteArgs ==
    [input_text : Queries, offset : Offsets, location : Locations, radius : Radii,
     language : Languages]

Init ==
    /\ pc = "idle"
    /\ op = "none"
    /\ args = << >>
    /\ calls = << >>
    /\ reply = NoReply
    /\ outcome = NoReply

\* One invocation, from the call to its return or exception.
Invoke(name, a, run) ==
    /\ pc' = "done"
    /\ op' = name
    /\ args' = a
    /\ calls' = run.calls
    /\ reply' = run.reply
    /\ outcome' = run.outcome

places ==
    /\ pc = "idle"
    /\ \E a \in PlacesArgs, r \in JsonReplies : Invoke("places", a, places_run(a, r))

place ==
    /\ pc = "idle"
    /\ \E a \in PlaceArgs, r \in JsonReplies : Invoke("place", a, place_run(a, r))

places_photo ==
    /\ pc = "idle"
    /\ \E a \in PhotoArgs, r \in RawReplies :
          Invoke("places_photo", a, places_photo_run(a, r))

places_autocomplete ==
    /\ pc = "idle"
    /\ \E a \in AutocompleteArgs, r \in JsonReplies :
          Invoke("places_autocomplete", a, places_autocomplete_run(a, r))

\* The functions keep nothing between invocations: the parameter mapping
\* and the response are local, and the next invocation starts afresh.
caller_continues ==
    /\ pc = "done"
    /\ pc' = "idle"
    /\ op' = "none"
    /\ args' = << >>
    /\ calls' = << >>
    /\ reply' = NoReply
    /\ outcome' = NoReply

Next ==
    \/ places
    \/ place
    \/ places_photo
    \/ places_autocomplete
    \/ caller_continues

Spec == Init /\ [][Next]_vars

(***************************************************************************)
(* Properties.                                                             *)
(***************************************************************************)
\* The invocation reached the collaborator.
Called == pc = "done" /\ Len(calls) >= 1

\* The shapes of a coordinate: a string, a mapping with lat and lng, a
\* sequence of two elements.
ValidCoordinate(v) ==
    \/ v.t = "str"
    \/ v.t = "dict" /\ "lat" \in DOMAIN v.items /\ "lng" \in DOMAIN v.items
    \/ v.t = "tuple" /\ Len(v.elems) = 2

\* C1: places_photo with max_width and max_height both absent raises
\* ValueError and calls _get zero times.
C1_PhotoWithoutSizeFails ==
    (op = "places_photo" /\ args.max_width = None /\ args.max_height = None)
        => (outcome = Raise("ValueError") /\ calls = << >> /\ reply = NoReply)

C1_Witness ==
    /\ pc = "done"
    /\ op = "places_photo"
    /\ args.max_width = None
    /\ args.max_height = None
    /\ outcome = Raise("ValueError")

\* C2, as stated: a places_photo call that passes the guard hands over a
\* mapping with photoreference, with maxwidth exactly when max_width was
\* supplied (is not None), with maxheight exactly when max_height was
\* supplied, and with no other key.
C2_KeysWhenSupplied ==
    (op = "places_photo" /\ Called) =>
        LET p == calls[1].params IN
        /\ "photoreference" \in DOMAIN p
        /\ p["photoreference"] = args.photo_reference
        /\ ("maxwidth" \in DOMAIN p) <=> (args.max_width # None)
        /\ ("maxheight" \in DOMAIN p) <=> (args.max_height # None)
        /\ DOMAIN p \subseteq {"photoreference", "maxwidth", "maxheight"}

\* C2, amended: the mapping has photoreference, has maxwidth (equal to
\* max_width) exactly when max_width is supplied and not zero, has maxheight
\* (equal to max_height) exactly when max_height is supplied and not zero,
\* and has no other key; with only max_height set it has maxheight and no
\* maxwidth.
C2_KeysWhenTruthy ==
    (op = "places_photo" /\ Called) =>
        LET p == calls[1].params IN
        /\ "photoreference" \in DOMAIN p
        /\ p["photoreference"] = args.photo_reference
        /\ ("maxwidth" \in DOMAIN p) <=> (args.max_width \notin {None, PyInt(0)})
        /\ ("maxheight" \in DOMAIN p) <=> (args.max_height \notin {None, PyInt(0)})
        /\ ("maxwidth" \in DOMAIN p) => p["maxwidth"] = args.max_width
        /\ ("maxheight" \in DOMAIN p) => p["maxheight"] = args.max_height
        /\ DOMAIN p \subseteq {"photoreference", "maxwidth", "maxheight"}
        /\ (args.max_width = None) => "maxwidth" \notin DOMAIN p

C2_Witness ==
    /\ op = "places_photo"
    /\ Called
    /\ args.max_width = None
    /\ args.max_height = PyInt(1)
    /\ DOMAIN calls[1].params = {"photoreference", "maxheight"}

\* C3: in a text search open_now=True puts opennow="true" in the mapping,
\* open_now=False leaves opennow out, and opennow is never "false".
C3_OpenNow ==
    (op = "places" /\ Called) =>
        LET p == calls[1].params IN
        /\ (args.open_now = PyBool(TRUE)) =>
               ("opennow" \in DOMAIN p /\ p["opennow"] = PyStr("true"))
        /\ (args.open_now = PyBool(FALSE)) => "opennow" \notin DOMAIN p
        /\ ("opennow" \in DOMAIN p) => p["opennow"] # PyStr("false")

C3_Witness ==
    /\ op = "places"
    /\ Called
    /\ args.open_now = PyBool(TRUE)
    /\ "opennow" \in DOMAIN calls[1].params
    /\ calls[1].params["opennow"] = PyStr("true")

\* C4: places_autocomplete returns the predictions field of the envelope the
\* collaborator returned, not the envelope; places and place return the
\* envelope unchanged.
C4_AutocompleteUnwraps ==
    /\ (op = "places_autocomplete" /\ Called /\ reply.kind = "return"
            /\ "predictions" \in DOMAIN reply.value.items) =>
           /\ outcome.kind = "return"
           /\ outcome.value = reply.value.items["predictions"]
           /\ outcome.value # reply.value
    /\ (op \in {"places", "place"} /\ Called /\ reply.kind = "return") =>
           /\ outcome.kind = "return"
           /\ outcome.value = reply.value

C4_Witness ==
    /\ op = "places_autocomplete"
    /\ Called
    /\ reply.kind = "return"
    /\ outcome = Return(PyList(<<PyStr("Pizza Place")>>))

\* C5, as stated: place calls /maps/api/place/details/json with exactly
\* {placeid, language} when a language is supplied (is not None) and exactly
\* {placeid} when it is not.
C5_LanguageWhenSupplied ==
    (op = "place" /\ pc = "done") =>
        /\ Len(calls) = 1
        /\ calls[1].path = "/maps/api/place/details/json"
        /\ calls[1].params =
               IF args.language # None
                 THEN [placeid |-> args.place_id, language |-> args.language]
                 ELSE [placeid |-> args.place_id]

\* C5, amended: place calls /maps/api/place/details/json with exactly
\* {placeid, language} when a non-empty language is supplied and exactly
\* {placeid} when the language is absent or the empty string.
C5_LanguageWhenNonEmpty ==
    (op = "place" /\ pc = "done") =>
        /\ Len(calls) = 1
        /\ calls[1].path = "/maps/api/place/details/json"
        /\ calls[1].params =
               IF args.language \notin {None, PyStr("")}
                 THEN [placeid |-> args.place_id, language |-> args.language]
                 ELSE [placeid |-> args.place_id]

C5_Witness ==
    /\ op = "place"
    /\ Called
    /\ args = [place_id |-> PyStr("abc123"), language |-> PyStr("en")]
    /\ calls[1].path = "/maps/api/place/details/json"
    /\ calls[1].params = [placeid |-> PyStr("abc123"), language |-> PyStr("en")]

\* The keys other than pagetoken are those of the same search without a
\* page token, with the same values.
C6_OthersIgnoreToken ==
    LET p == calls[1].params
        q == places_params([args EXCEPT !.page_token = None])
    IN  /\ DOMAIN p \ {"pagetoken"} = DOMAIN q
        /\ \A k \in DOMAIN q : p[k] = q[k]

\* C6, as stated: in a text search with a page token (one that is not None)
\* the mapping has pagetoken equal to the token, and the presence of every
\* other key does not depend on the page token.
C6_TokenWhenSupplied ==
    (op = "places" /\ Called) =>
        LET p == calls[1].params IN
        /\ (args.page_token # None) =>
               ("pagetoken" \in DOMAIN p /\ p["pagetoken"] = args.page_token)
        /\ C6_OthersIgnoreToken

\* C6, amended: in a text search with a non-empty page token the mapping has
\* pagetoken equal to the token (the empty string counts as no token), query
\* is always present, and each other key is present exactly when its own
\* argument is truthy (not None, not zero, not empty), whatever the page
\* token is.
C6_TokenWhenNonEmpty ==
    (op = "places" /\ Called) =>
        LET p == calls[1].params IN
        /\ ("pagetoken" \in DOMAIN p) <=> (args.page_token \notin {None, PyStr("")})
        /\ ("pagetoken" \in DOMAIN p) => p["pagetoken"] = args.page_token
        /\ C6_OthersIgnoreToken
        /\ "query" \in DOMAIN p
        /\ p["query"] = args.query
        /\ ("location" \in DOMAIN p) <=>
               (args.location \notin {None, PyStr(""), PyInt(0), PyTuple(<< >>)})
        /\ ("radius" \in DOMAIN p) <=> (args.radius \notin {None, PyInt(0)})
        /\ ("language" \in DOMAIN p) <=> (args.language \notin {None, PyStr("")})
        /\ ("minprice" \in DOMAIN p) <=> (args.min_price \notin {None, PyInt(0)})
        /\ ("maxprice" \in DOMAIN p) <=> (args.max_price \notin {None, PyInt(0)})
        /\ ("opennow" \in DOMAIN p) <=> (args.open_now = PyBool(TRUE))

C6_Witness ==
    /\ op = "places"
    /\ Called
    /\ args.page_token = PyStr("tok")
    /\ "pagetoken" \in DOMAIN calls[1].params
    /\ calls[1].params["pagetoken"] = PyStr("tok")
    /\ args.language = None
    /\ args.radius = PyInt(1)
    /\ DOMAIN calls[1].params = {"query", "radius", "pagetoken"}

\* C7, as stated: a text search never ends in an error of its own; whatever
\* the arguments, the location included, the collaborator is called and an
\* exception of the call is the collaborator's.
C7_NoLocalError ==
    (op = "places" /\ pc = "done") =>
        /\ Len(calls) = 1
        /\ (outcome.kind = "raise") => outcome = reply

\* C7, amended: a text search whose location is absent, falsy or a
\* coordinate (a string, a mapping with lat and lng, a sequence of two)
\* calls the collaborator and ends in no error but the collaborator's; a
\* truthy location of another shape fails in the normalisation, before the
\* collaborator is called.
C7_NoLocalErrorButLocation ==
    (op = "places" /\ pc = "done") =>
        IF ~Truthy(args.location) \/ ValidCoordinate(args.location)
          THEN /\ Len(calls) = 1
               /\ (outcome.kind = "raise") => outcome = reply
          ELSE /\ calls = << >>
               /\ reply = NoReply
               /\ outcome.kind = "raise"

C7_Witness ==
    /\ op = "places"
    /\ pc = "done"
    /\ args.location = None
    /\ args.min_price = PyInt(MaxPrice)
    /\ Len(calls) = 1
    /\ outcome.kind = "return"

\* C8: in a text search every integer given as min_price or max_price, in
\* the range 0..4 or outside it, is in the mapping as minprice or maxprice
\* with the value given.
C8_PricePassedThrough ==
    (op = "places" /\ Called) =>
        LET p == calls[1].params IN
        /\ (args.min_price.t = "int") =>
               ("minprice" \in DOMAIN p /\ p["minprice"] = args.min_price)
        /\ (args.max_price.t = "int") =>
               ("maxprice" \in DOMAIN p /\ p["maxprice"] = args.max_price)

\* C9: in a text search with the types argument the mapping handed to the
\* collaborator carries the type restriction.
C9_TypesRestrict ==
    (op = "places" /\ Called /\ args.types # None) =>
        \E k \in DOMAIN calls[1].params :
            k \in {"types", "type"} /\ calls[1].params[k] = args.types

\* The invocation passes the function's own checks: the size guard of
\* places_photo, the normalisation of a location.
LocallyValid ==
    CASE op = "places_photo" ->
             args.max_width \notin {None, PyInt(0)} \/ args.max_height \notin {None, PyInt(0)}
      [] op \in {"places", "places_autocomplete"} ->
             ~Truthy(args.location) \/ ValidCoordinate(args.location)
      [] OTHER -> TRUE

\* C10: an invocation calls _get at most once, exactly once when its own
\* checks pass, and a failure of that call is the invocation's failure:
\* no second call, no result.
C10_SingleRoundTrip ==
    (pc = "done") =>
        /\ Len(calls) <= 1
        /\ LocallyValid <=> (Len(calls) = 1)
        /\ (reply.kind = "raise") => (Len(calls) = 1 /\ outcome = reply)
        /\ (Len(calls) = 0) => (reply = NoReply /\ outcome.kind = "raise")

C10_Witness ==
    /\ pc = "done"
    /\ op = "places_photo"
    /\ Len(calls) = 1
    /\ reply = Raise("TransportError")
    /\ outcome = Raise("TransportError")
====
